---- MODULE Spec2Model ----
(***************************************************************************)
(* Model of the DigitalOcean provider of external-dns-management:          *)
(*   - DNSClient (pkg/controller/provider/digitalocean/client.go): the     *)
(*     paginated, rate-limited listing calls and the record mutations;     *)
(*   - Handler (handler.go of the same package): zone discovery, zone      *)
(*     state building and the zone cache it delegates to.                  *)
(* Every call is one action; the order of the metric increment, the        *)
(* rate-limiter token and the remote requests inside a call is kept as the *)
(* sequence of events the call produced.                                   *)
(***************************************************************************)
EXTENDS Integers, Sequences, FiniteSets, TLC

VARIABLES svcDomains, svcRecords, last, prevState, zonesCache, stateCache, calls

vars == <<svcDomains, svcRecords, last, prevState, zonesCache, stateCache, calls>>

(***************************************************************************)
(* Bounds of the model.                                                    *)
(***************************************************************************)
\* most records the remote side holds, over all its domains
MaxRecs == 2
\* most items the remote serves on one page, whatever page size is asked
RemotePageCap == 1
\* most change requests of one batch
MaxBatch == 2

(***************************************************************************)
(* Program constants.                                                      *)
(***************************************************************************)
\* godo.ListOptions.PerPage
PerPage == 100
\* floor of the TTL in createRecordRequest
MinTTL == 30

RS_NS == "NS"
RS_A == "A"

M_LISTZONES == "M_LISTZONES"
M_LISTRECORDS == "M_LISTRECORDS"
M_CREATERECORDS == "M_CREATERECORDS"
M_UPDATERECORDS == "M_UPDATERECORDS"
M_DELETERECORDS == "M_DELETERECORDS"

(***************************************************************************)
(* Small universes the inputs are drawn from.                              *)
(***************************************************************************)
DomainNames == {"a.com", "b.com"}

Sub(d) == IF d = "a.com" THEN "sub.a.com" ELSE "sub.b.com"

TTLInputs == {0, 10, 29, 30, 31}

\* record identifiers as the strings raw.Record.GetId() can return,
\* written as sequences of characters
IdInputs == { <<"1">>, <<"2">>, <<"3">>, <<"1", "2">>, <<>>, <<"x">>,
              <<"-", "1">>, <<"+", "2">>, <<"1", "x">>, <<"-">> }

\* the nil error; every other error is a record with another kind
Nil == [kind |-> "nil"]

\* the error of a failed remote request
RemoteErr(cause) == [kind |-> "remote", cause |-> cause]

\* resp.Links == nil
NoLinks == [nil |-> TRUE]

Min(a, b) == IF a < b THEN a ELSE b

Max(a, b) == IF a < b THEN b ELSE a

RECURSIVE Flatten(_)
Flatten(ss) == IF ss = <<>> THEN <<>> ELSE Head(ss) \o Flatten(Tail(ss))

SeqsUpTo(S, n) == UNION { [1..k -> S] : k \in 0..n }

Range(s) == { s[i] : i \in 1..Len(s) }

(***************************************************************************)
(* strconv.Atoi / strconv.Itoa on short decimal strings.                   *)
(***************************************************************************)
Digits == <<"0", "1", "2", "3", "4", "5", "6", "7", "8", "9">>

IsDigit(c) == \E i \in 1..10 : Digits[i] = c

DigitVal(c) == (CHOOSE i \in 1..10 : Digits[i] = c) - 1

RECURSIVE DecVal(_)
DecVal(s) == IF s = <<>> THEN 0
             ELSE DecVal(SubSeq(s, 1, Len(s) - 1)) * 10 + DigitVal(s[Len(s)])

\* strconv.Atoi: optional sign, then one or more decimal digits
Atoi(s) ==
  LET signed == s # <<>> /\ s[1] \in {"+", "-"}
      body   == IF signed THEN Tail(s) ELSE s
  IN  IF body = <<>> \/ \E i \in 1..Len(body) : ~IsDigit(body[i])
        THEN [ok |-> FALSE, val |-> 0]
        ELSE [ok |-> TRUE,
              val |-> IF signed /\ s[1] = "-" THEN 0 - DecVal(body) ELSE DecVal(body)]

RECURSIVE Itoa(_)
Itoa(n) == IF n < 0 THEN <<"-">> \o Itoa(0 - n)
           ELSE IF n < 10 THEN <<Digits[n + 1]>>
           ELSE Itoa(n \div 10) \o <<Digits[(n % 10) + 1]>>

(***************************************************************************)
(* The remote service (godo.DomainsService) as the client sees it.         *)
(* A fault says which request of one listing call misbehaves, and how:     *)
(*   err      the request fails                                            *)
(*   curerr   the response's current-page marker cannot be read            *)
(*   nolinks  the response carries no page links                           *)
(*   stale    the response reports the previous page as current            *)
(***************************************************************************)
FaultKinds == {"none", "err", "curerr", "nolinks", "stale"}

MaxPages == (MaxRecs + RemotePageCap - 1) \div RemotePageCap

NoFault == [kind |-> "none", at |-> 1]

Faults == {NoFault} \cup [kind : FaultKinds \ {"none"}, at : 1..MaxPages]

\* number of pages a listing of n items is served as (an empty listing is
\* one empty page)
NumPages(n, perPage) == Max(1, (n + perPage - 1) \div perPage)

PageOf(items, page, perPage) ==
  SubSeq(items, Min((page - 1) * perPage + 1, Len(items) + 1),
                Min(page * perPage, Len(items)))

\* the response to the k-th request of a listing call, asking for opt.Page
SvcPage(items, opt, k, fault) ==
  LET pp  == Min(opt.PerPage, RemotePageCap)
      n   == NumPages(Len(items), pp)
      hit == fault.at = k
  IN  IF hit /\ fault.kind = "err"
        THEN [err |-> RemoteErr("unavailable"), items |-> <<>>, links |-> NoLinks]
        ELSE [err |-> Nil,
              items |-> PageOf(items, opt.Page, pp),
              links |-> IF hit /\ fault.kind = "nolinks" THEN NoLinks
                        ELSE [nil |-> FALSE,
                              IsLastPage |-> opt.Page >= n,
                              CurrentPage |->
                                IF hit /\ fault.kind = "curerr" THEN [err |-> RemoteErr("page"), page |-> 0]
                                ELSE IF hit /\ fault.kind = "stale" /\ opt.Page > 1
                                       THEN [err |-> Nil, page |-> opt.Page - 1]
                                ELSE [err |-> Nil, page |-> opt.Page]]]

\* cl.svc.List
SvcList(opt, k, fault) == SvcPage(svcDomains, opt, k, fault)

\* cl.svc.Records; a domain the remote does not know is an error
SvcRecords(domain, opt, k, fault) ==
  IF domain \notin Range(svcDomains)
    THEN [err |-> RemoteErr("notfound"), items |-> <<>>, links |-> NoLinks]
    ELSE SvcPage(svcRecords[domain], opt, k, fault)

(***************************************************************************)
(* Events of one call, in program order.                                   *)
(***************************************************************************)
EvMetric(name) == [kind |-> "metric", name |-> name]

EvAccept == [kind |-> "accept"]

EvList(page) == [kind |-> "req", call |-> "List", page |-> page]

EvRecords(domain, page) ==
  [kind |-> "req", call |-> "Records", domain |-> domain, page |-> page]

EvCreate(domain, req) ==
  [kind |-> "req", call |-> "CreateRecord", domain |-> domain, req |-> req]

EvEdit(domain, id, req) ==
  [kind |-> "req", call |-> "EditRecord", domain |-> domain, id |-> id, req |-> req]

EvDelete(domain, id) ==
  [kind |-> "req", call |-> "DeleteRecord", domain |-> domain, id |-> id]

(***************************************************************************)
(* DNSClient.ListDomains                                                   *)
(***************************************************************************)
\* ListDomains taking a rate-limiter token for every page after the first
RECURSIVE ListDomainsLoopTokenPerPage(_, _, _, _, _)
ListDomainsLoopTokenPerPage(opt, k, domains, events, fault) ==
  LET r   == SvcList(opt, k, fault)
      evs == IF k > 1 THEN events \o <<EvAccept, EvList(opt.Page)>>
             ELSE Append(events, EvList(opt.Page))
  IN  IF r.err # Nil
        THEN [result |-> <<>>, err |-> r.err, events |-> evs]
      ELSE LET doms == domains \o r.items
           IN  IF r.links.nil \/ r.links.IsLastPage
                 THEN [result |-> doms, err |-> Nil, events |-> evs]
               ELSE IF r.links.CurrentPage.err # Nil
                 THEN [result |-> <<>>, err |-> r.links.CurrentPage.err, events |-> evs]
               ELSE ListDomainsLoopTokenPerPage(
                      [opt EXCEPT !.Page = r.links.CurrentPage.page + 1],
                      k + 1, doms, evs, fault)

\* ListDomains reading on until a page comes back empty, whatever the
\* last-page marker says
RECURSIVE ListDomainsLoopUntilEmpty(_, _, _, _, _)
ListDomainsLoopUntilEmpty(opt, k, domains, events, fault) ==
  LET r   == SvcList(opt, k, fault)
      evs == Append(events, EvList(opt.Page))
  IN  IF r.err # Nil
        THEN [result |-> <<>>, err |-> r.err, events |-> evs]
      ELSE LET doms == domains \o r.items
           IN  IF r.links.nil \/ r.items = <<>>
                 THEN [result |-> doms, err |-> Nil, events |-> evs]
               ELSE IF r.links.CurrentPage.err # Nil
                 THEN [result |-> <<>>, err |-> r.links.CurrentPage.err, events |-> evs]
               ELSE ListDomainsLoopUntilEmpty(
                      [opt EXCEPT !.Page = r.links.CurrentPage.page + 1],
                      k + 1, doms, evs, fault)

RECURSIVE ListDomainsLoop(_, _, _, _, _)
ListDomainsLoop(opt, k, domains, events, fault) ==
  LET r   == SvcList(opt, k, fault)
      evs == Append(events, EvList(opt.Page))
  IN  IF r.err # Nil
        THEN [result |-> <<>>, err |-> r.err, events |-> evs]
      ELSE LET doms == domains \o r.items
           IN  IF r.links.nil \/ r.links.IsLastPage
                 THEN [result |-> doms, err |-> Nil, events |-> evs]
               ELSE IF r.links.CurrentPage.err # Nil
                 THEN [result |-> <<>>, err |-> r.links.CurrentPage.err, events |-> evs]
               ELSE ListDomainsLoop([opt EXCEPT !.Page = r.links.CurrentPage.page + 1],
                                    k + 1, doms, evs, fault)

ListDomains(fault) ==
  ListDomainsLoop([Page |-> 1, PerPage |-> PerPage], 1, <<>>,
                  <<EvMetric(M_LISTZONES), EvAccept>>, fault)

(***************************************************************************)
(* DNSClient.ListRecords                                                   *)
(***************************************************************************)
\* ListRecords keeping only the page it fetched last
RECURSIVE ListRecordsLoopOverwrite(_, _, _, _, _, _)
ListRecordsLoopOverwrite(domain, opt, k, records, events, fault) ==
  LET r   == SvcRecords(domain, opt, k, fault)
      evs == Append(events, EvRecords(domain, opt.Page))
  IN  IF r.err # Nil
        THEN [result |-> <<>>, err |-> r.err, events |-> evs]
      ELSE LET recs == r.items
           IN  IF r.links.nil \/ r.links.IsLastPage
                 THEN [result |-> recs, err |-> Nil, events |-> evs]
               ELSE IF r.links.CurrentPage.err # Nil
                 THEN [result |-> <<>>, err |-> r.links.CurrentPage.err, events |-> evs]
               ELSE ListRecordsLoopOverwrite(domain,
                      [opt EXCEPT !.Page = r.links.CurrentPage.page + 1],
                      k + 1, recs, evs, fault)

\* ListRecords returning the pages fetched so far along with the error
RECURSIVE ListRecordsLoopPartial(_, _, _, _, _, _)
ListRecordsLoopPartial(domain, opt, k, records, events, fault) ==
  LET r   == SvcRecords(domain, opt, k, fault)
      evs == Append(events, EvRecords(domain, opt.Page))
  IN  IF r.err # Nil
        THEN [result |-> records, err |-> r.err, events |-> evs]
      ELSE LET recs == records \o r.items
           IN  IF r.links.nil \/ r.links.IsLastPage
                 THEN [result |-> recs, err |-> Nil, events |-> evs]
               ELSE IF r.links.CurrentPage.err # Nil
                 THEN [result |-> recs, err |-> r.links.CurrentPage.err, events |-> evs]
               ELSE ListRecordsLoopPartial(domain,
                      [opt EXCEPT !.Page = r.links.CurrentPage.page + 1],
                      k + 1, recs, evs, fault)

RECURSIVE ListRecordsLoop(_, _, _, _, _, _)
ListRecordsLoop(domain, opt, k, records, events, fault) ==
  LET r   == SvcRecords(domain, opt, k, fault)
      evs == Append(events, EvRecords(domain, opt.Page))
  IN  IF r.err # Nil
        THEN [result |-> <<>>, err |-> r.err, events |-> evs]
      ELSE LET recs == records \o r.items
           IN  IF r.links.nil \/ r.links.IsLastPage
                 THEN [result |-> recs, err |-> Nil, events |-> evs]
               ELSE IF r.links.CurrentPage.err # Nil
                 THEN [result |-> <<>>, err |-> r.links.CurrentPage.err, events |-> evs]
               ELSE ListRecordsLoop(domain,
                                    [opt EXCEPT !.Page = r.links.CurrentPage.page + 1],
                                    k + 1, recs, evs, fault)

ListRecords(domain, fault) ==
  ListRecordsLoop(domain, [Page |-> 1, PerPage |-> PerPage], 1, <<>>,
                  <<EvMetric(M_LISTRECORDS), EvAccept>>, fault)

(***************************************************************************)
(* The remote side of the record mutations.  fail is the remote's choice   *)
(* to reject the request; a request for an unknown domain or an unknown    *)
(* record identifier is rejected as well.                                  *)
(***************************************************************************)
IdsOf(recs) == { recs[i].ID : i \in 1..Len(recs) }

FreshId(recs) == CHOOSE n \in 1..(Len(recs) + 1) : n \notin IdsOf(recs)

RECURSIVE Without(_, _)
Without(recs, id) ==
  IF recs = <<>> THEN <<>>
  ELSE IF Head(recs).ID = id THEN Without(Tail(recs), id)
  ELSE <<Head(recs)>> \o Without(Tail(recs), id)

\* cl.svc.CreateRecord
SvcCreateRecordOn(records, domain, req, fail) ==
  IF fail \/ domain \notin Range(svcDomains)
    THEN [err |-> RemoteErr("rejected"), records |-> records]
    ELSE [err |-> Nil,
          records |-> [records EXCEPT ![domain] =
                         Append(@, [ID |-> FreshId(@), Type |-> req.Type, Name |-> req.Name,
                                    Data |-> req.Data, TTL |-> req.TTL])]]

SvcCreateRecord(domain, req, fail) == SvcCreateRecordOn(svcRecords, domain, req, fail)

\* cl.svc.EditRecord
SvcEditRecordOn(records, domain, id, req, fail) ==
  IF fail \/ domain \notin Range(svcDomains) \/ id \notin IdsOf(records[domain])
    THEN [err |-> RemoteErr("rejected"), records |-> records]
    ELSE [err |-> Nil,
          records |-> [records EXCEPT ![domain] =
                         [i \in 1..Len(@) |->
                            IF @[i].ID = id
                              THEN [ID |-> id, Type |-> req.Type, Name |-> req.Name,
                                    Data |-> req.Data, TTL |-> req.TTL]
                              ELSE @[i]]]]

SvcEditRecord(domain, id, req, fail) == SvcEditRecordOn(svcRecords, domain, id, req, fail)

\* cl.svc.DeleteRecord
SvcDeleteRecordOn(records, domain, id, fail) ==
  IF fail \/ domain \notin Range(svcDomains) \/ id \notin IdsOf(records[domain])
    THEN [err |-> RemoteErr("rejected"), records |-> records]
    ELSE [err |-> Nil,
          records |-> [records EXCEPT ![domain] = Without(@, id)]]

SvcDeleteRecord(domain, id, fail) == SvcDeleteRecordOn(svcRecords, domain, id, fail)

(***************************************************************************)
(* createRecordRequest                                                     *)
(***************************************************************************)
\* createRecordRequest without the floor
createRecordRequestNoFloor(r) ==
  [Type |-> r.type, Name |-> r.name, Data |-> r.value, TTL |-> r.ttl]

createRecordRequest(r) ==
  LET req == [Type |-> r.type, Name |-> r.name, Data |-> r.value, TTL |-> r.ttl]
  IN  IF req.TTL < MinTTL THEN [req EXCEPT !.TTL = MinTTL] ELSE req

\* the error texts of the mutations name the record's type, name and value
\* and the cause; the conversion errors name the identifier
WriteErr(op, r, cause) ==
  [kind |-> op, type |-> r.type, name |-> r.name, value |-> r.value, cause |-> cause]

ConvErr(op, r) == [kind |-> "convert", op |-> op, id |-> r.id]

(***************************************************************************)
(* DNSClient.CreateRecord                                                  *)
(***************************************************************************)
\* CreateRecord sending the request before it takes the token
CreateRecordLateAccept(r, fail) ==
  LET req == createRecordRequest(r)
      evs == <<EvMetric(M_CREATERECORDS), EvCreate(r.domain, req), EvAccept>>
      res == SvcCreateRecord(r.domain, req, fail)
  IN  IF res.err # Nil
        THEN [err |-> WriteErr("create", r, res.err), events |-> evs, records |-> res.records]
        ELSE [err |-> Nil, events |-> evs, records |-> res.records]

CreateRecordOn(records, r, fail) ==
  LET req == createRecordRequest(r)
      evs == <<EvMetric(M_CREATERECORDS), EvAccept, EvCreate(r.domain, req)>>
      res == SvcCreateRecordOn(records, r.domain, req, fail)
  IN  IF res.err # Nil
        THEN [err |-> WriteErr("create", r, res.err), events |-> evs, records |-> res.records]
        ELSE [err |-> Nil, events |-> evs, records |-> res.records]

CreateRecord(r, fail) == CreateRecordOn(svcRecords, r, fail)

(***************************************************************************)
(* DNSClient.UpdateRecord                                                  *)
(***************************************************************************)
\* UpdateRecord dropping the error of the remote call
UpdateRecordOnErrorDropped(records, r, fail) ==
  LET req == createRecordRequest(r)
      id  == Atoi(r.id)
  IN  IF ~id.ok
        THEN [err |-> ConvErr("update", r), events |-> <<>>, records |-> records]
      ELSE LET evs == <<EvMetric(M_UPDATERECORDS), EvAccept, EvEdit(r.domain, id.val, req)>>
               res == SvcEditRecordOn(records, r.domain, id.val, req, fail)
           IN  [err |-> Nil, events |-> evs, records |-> res.records]

\* UpdateRecord calling the remote's create instead of its edit
UpdateRecordOnCreates(records, r, fail) ==
  LET req == createRecordRequest(r)
      id  == Atoi(r.id)
  IN  IF ~id.ok
        THEN [err |-> ConvErr("update", r), events |-> <<>>, records |-> records]
      ELSE LET evs == <<EvMetric(M_UPDATERECORDS), EvAccept, EvCreate(r.domain, req)>>
               res == SvcCreateRecordOn(records, r.domain, req, fail)
           IN  IF res.err # Nil
                 THEN [err |-> WriteErr("update", r, res.err), events |-> evs,
                       records |-> res.records]
                 ELSE [err |-> Nil, events |-> evs, records |-> res.records]

UpdateRecordOn(records, r, fail) ==
  LET req == createRecordRequest(r)
      id  == Atoi(r.id)
  IN  IF ~id.ok
        THEN [err |-> ConvErr("update", r), events |-> <<>>, records |-> records]
      ELSE LET evs == <<EvMetric(M_UPDATERECORDS), EvAccept, EvEdit(r.domain, id.val, req)>>
               res == SvcEditRecordOn(records, r.domain, id.val, req, fail)
           IN  IF res.err # Nil
                 THEN [err |-> WriteErr("update", r, res.err), events |-> evs,
                       records |-> res.records]
                 ELSE [err |-> Nil, events |-> evs, records |-> res.records]

UpdateRecord(r, fail) == UpdateRecordOn(svcRecords, r, fail)

(***************************************************************************)
(* DNSClient.DeleteRecord                                                  *)
(***************************************************************************)
\* DeleteRecord converting the identifier after the metric and the token
DeleteRecordLateConvert(r, fail) ==
  LET id == Atoi(r.id)
  IN  IF ~id.ok
        THEN [err |-> ConvErr("delete", r),
              events |-> <<EvMetric(M_DELETERECORDS), EvAccept>>, records |-> svcRecords]
      ELSE LET evs == <<EvMetric(M_DELETERECORDS), EvAccept, EvDelete(r.domain, id.val)>>
               res == SvcDeleteRecord(r.domain, id.val, fail)
           IN  IF res.err # Nil
                 THEN [err |-> WriteErr("delete", r, res.err), events |-> evs,
                       records |-> res.records]
                 ELSE [err |-> Nil, events |-> evs, records |-> res.records]

DeleteRecordOn(records, r, fail) ==
  LET id == Atoi(r.id)
  IN  IF ~id.ok
        THEN [err |-> ConvErr("delete", r), events |-> <<>>, records |-> records]
      ELSE LET evs == <<EvMetric(M_DELETERECORDS), EvAccept, EvDelete(r.domain, id.val)>>
               res == SvcDeleteRecordOn(records, r.domain, id.val, fail)
           IN  IF res.err # Nil
                 THEN [err |-> WriteErr("delete", r, res.err), events |-> evs,
                       records |-> res.records]
                 ELSE [err |-> Nil, events |-> evs, records |-> res.records]

DeleteRecord(r, fail) == DeleteRecordOn(svcRecords, r, fail)

(***************************************************************************)
(* toRecord: the provider record as a raw.Record of the zone.              *)
(***************************************************************************)
toRecord(record, domain) ==
  [id |-> Itoa(record.ID), type |-> record.Type, name |-> record.Name,
   value |-> record.Data, ttl |-> record.TTL, domain |-> domain]

(***************************************************************************)
(* raw.NewState / AddRecord / CalculateDNSSets: the zone state builder.    *)
(* A zone state is the list of its records and the DNSSets built from      *)
(* them, one per (name, type).                                             *)
(***************************************************************************)
NewState == [records |-> <<>>, dnssets |-> {}]

\* a forwarded subdomain: an NS record that is not the zone's apex
IsForwarded(r) == r.type = RS_NS /\ r.name # r.domain

AddRecord(state, r) ==
  IF IsForwarded(r) THEN state
  ELSE [state EXCEPT !.records = Append(@, r)]

RECURSIVE MinTTLOf(_)
MinTTLOf(rs) == IF Len(rs) = 1 THEN rs[1].ttl
                ELSE Min(rs[1].ttl, MinTTLOf(Tail(rs)))

CalculateDNSSets(state) ==
  LET keys == { <<state.records[i].name, state.records[i].type>> :
                  i \in 1..Len(state.records) }
      of(k) == SelectSeq(state.records, LAMBDA r : <<r.name, r.type>> = k)
  IN  [state EXCEPT !.dnssets =
         { [name |-> k[1], type |-> k[2], ttl |-> MinTTLOf(of(k)),
            values |-> [i \in 1..Len(of(k)) |->
                          [value |-> of(k)[i].value, ttl |-> of(k)[i].ttl]]] : k \in keys }]

(***************************************************************************)
(* Handler.getZones                                                        *)
(* faults[j] is the fault of the j-th listing call of the refresh: call 0  *)
(* lists the domains, call i lists the records of the i-th domain.         *)
(***************************************************************************)
RECURSIVE ForwardedOf(_, _)
ForwardedOf(records, domName) ==
  IF records = <<>> THEN <<>>
  ELSE (IF Head(records).Type = RS_NS /\ Head(records).Name # domName
          THEN <<Head(records).Name>> ELSE <<>>)
       \o ForwardedOf(Tail(records), domName)

\* getZones answering a failed record listing with the zones built so far
\* and no error
RECURSIVE getZonesLoopPartial(_, _, _, _, _, _)
getZonesLoopPartial(domains, i, forwarded, zones, events, faults) ==
  IF i > Len(domains)
    THEN [result |-> zones, err |-> Nil, events |-> events]
  ELSE LET dom == domains[i]
           l   == ListRecords(dom, faults[i])
           evs == events \o l.events
       IN  IF l.err # Nil
             THEN [result |-> zones, err |-> Nil, events |-> evs]
           ELSE LET fwd == forwarded \o ForwardedOf(l.result, dom)
                    hostedZone == [id |-> dom, domain |-> dom, key |-> dom,
                                   forwarded |-> fwd]
                IN  getZonesLoopPartial(domains, i + 1, fwd, Append(zones, hostedZone),
                                        evs, faults)

\* getZones listing the records of the remaining domains after a failed
\* record listing, before it returns the error
RECURSIVE getZonesLoopGoesOn(_, _, _, _, _, _)
getZonesLoopGoesOn(domains, i, forwarded, zones, events, faults) ==
  IF i > Len(domains)
    THEN [result |-> zones, err |-> Nil, events |-> events]
  ELSE LET dom == domains[i]
           l   == ListRecords(dom, faults[i])
           evs == events \o l.events
       IN  IF l.err # Nil
             THEN [result |-> <<>>, err |-> l.err,
                   events |-> getZonesLoopGoesOn(domains, i + 1, forwarded, zones,
                                                 evs, faults).events]
           ELSE LET fwd == forwarded \o ForwardedOf(l.result, dom)
                    hostedZone == [id |-> dom, domain |-> dom, key |-> dom,
                                   forwarded |-> fwd]
                IN  getZonesLoopGoesOn(domains, i + 1, fwd, Append(zones, hostedZone),
                                       evs, faults)

RECURSIVE getZonesLoop(_, _, _, _, _, _)
getZonesLoop(domains, i, forwarded, zones, events, faults) ==
  IF i > Len(domains)
    THEN [result |-> zones, err |-> Nil, events |-> events]
  ELSE LET dom == domains[i]
           l   == ListRecords(dom, faults[i])
           evs == events \o l.events
       IN  IF l.err # Nil
             THEN [result |-> <<>>, err |-> l.err, events |-> evs]
           ELSE LET fwd == forwarded \o ForwardedOf(l.result, dom)
                    hostedZone == [id |-> dom, domain |-> dom, key |-> dom,
                                   forwarded |-> fwd]
                IN  getZonesLoop(domains, i + 1, fwd, Append(zones, hostedZone),
                                 evs, faults)

getZones(faults) ==
  LET l == ListDomains(faults[0])
  IN  IF l.err # Nil
        THEN [result |-> <<>>, err |-> l.err, events |-> l.events]
        ELSE getZonesLoop(l.result, 1, <<>>, <<>>, l.events, faults)

(***************************************************************************)
(* Handler.getZoneState                                                    *)
(***************************************************************************)
RECURSIVE AddRecords(_, _, _)
AddRecords(state, records, domain) ==
  IF records = <<>> THEN state
  ELSE AddRecords(AddRecord(state, toRecord(Head(records), domain)),
                  Tail(records), domain)

NoState == [records |-> <<>>, dnssets |-> {}]

\* getZoneState attaching each record's own name instead of the zone's domain
RECURSIVE AddRecordsOwnName(_, _)
AddRecordsOwnName(state, records) ==
  IF records = <<>> THEN state
  ELSE AddRecordsOwnName(AddRecord(state, toRecord(Head(records), Head(records).Name)),
                         Tail(records))

getZoneStateOwnName(zone, fault) ==
  LET l == ListRecords(zone.domain, fault)
  IN  IF l.err # Nil
        THEN [result |-> NoState, err |-> l.err, events |-> l.events]
        ELSE [result |-> CalculateDNSSets(AddRecordsOwnName(NewState, l.result)),
              err |-> Nil, events |-> l.events]

\* getZoneState raising the TTLs it read to the floor of the write path
RECURSIVE AddRecordsFloored(_, _, _)
AddRecordsFloored(state, records, domain) ==
  IF records = <<>> THEN state
  ELSE AddRecordsFloored(
         AddRecord(state, [toRecord(Head(records), domain)
                             EXCEPT !.ttl = Max(Head(records).TTL, MinTTL)]),
         Tail(records), domain)

getZoneStateFloored(zone, fault) ==
  LET l == ListRecords(zone.domain, fault)
  IN  IF l.err # Nil
        THEN [result |-> NoState, err |-> l.err, events |-> l.events]
        ELSE [result |-> CalculateDNSSets(AddRecordsFloored(NewState, l.result, zone.domain)),
              err |-> Nil, events |-> l.events]

getZoneState(zone, fault) ==
  LET l == ListRecords(zone.domain, fault)
  IN  IF l.err # Nil
        THEN [result |-> NoState, err |-> l.err, events |-> l.events]
        ELSE [result |-> CalculateDNSSets(AddRecords(NewState, l.result, zone.domain)),
              err |-> Nil, events |-> l.events]

(***************************************************************************)
(* NewHandler: the cache configuration the handler hands to NewZoneCache.  *)
(***************************************************************************)
\* c.CacheConfig as the host supplies it
HostCacheConfig == [disableZoneStateCache |-> FALSE]

CopyWithDisabledZoneStateCache(cfg) == [cfg EXCEPT !.disableZoneStateCache = TRUE]

\* NewHandler handing the host's cache configuration on as it is
NewHandlerCacheConfigKept == HostCacheConfig

NewHandlerCacheConfig == CopyWithDisabledZoneStateCache(HostCacheConfig)

(***************************************************************************)
(* provider.ZoneCache as built by NewZoneCache(config, ..., getZones,      *)
(* getZoneState): a memo of the zone list and, unless the configuration    *)
(* disables it, of each zone's state.                                      *)
(***************************************************************************)
NoZones == [valid |-> FALSE, zones |-> <<>>]

NoEntry == [valid |-> FALSE, state |-> NoState]

CacheGetZones(faults) ==
  IF zonesCache.valid
    THEN [result |-> zonesCache.zones, err |-> Nil, events |-> <<>>, zonesCache |-> zonesCache]
  ELSE LET r == getZones(faults)
       IN  IF r.err # Nil
             THEN [result |-> <<>>, err |-> r.err, events |-> r.events,
                   zonesCache |-> zonesCache]
             ELSE [result |-> r.result, err |-> Nil, events |-> r.events,
                   zonesCache |-> [valid |-> TRUE, zones |-> r.result]]

CacheGetZoneState(config, zone, fault) ==
  IF ~config.disableZoneStateCache /\ stateCache[zone.key].valid
    THEN [result |-> stateCache[zone.key].state, err |-> Nil, events |-> <<>>,
          stateCache |-> stateCache]
  ELSE LET r == getZoneState(zone, fault)
       IN  IF r.err # Nil
             THEN [result |-> NoState, err |-> r.err, events |-> r.events,
                   stateCache |-> stateCache]
           ELSE [result |-> r.result, err |-> Nil, events |-> r.events,
                 stateCache |-> IF config.disableZoneStateCache THEN stateCache
                                ELSE [stateCache EXCEPT ![zone.key] =
                                        [valid |-> TRUE, state |-> r.result]]]

CacheReportZoneStateConflict(zone, err) ==
  [result |-> TRUE,
   stateCache |-> [stateCache EXCEPT ![zone.key] = [@ EXCEPT !.valid = FALSE]]]

\* provider.ZoneCache.ApplyRequests: a failed batch invalidates the zone's
\* entry; the requests of an applied batch are not folded into a kept state,
\* the entry is dropped as well
CacheApplyRequests(config, err, zone, reqs) ==
  IF err # Nil \/ ~config.disableZoneStateCache
    THEN [stateCache EXCEPT ![zone.key] = [@ EXCEPT !.valid = FALSE]]
    ELSE stateCache

(***************************************************************************)
(* raw.ExecuteRequests: the change executor.  A change request carries the *)
(* record and whether it is to be removed; a record without an identifier  *)
(* is created, one with an identifier is updated.  failAt is the request   *)
(* the remote rejects of its own (0: none).                                *)
(***************************************************************************)
OpKind(req) == IF req.remove THEN "delete"
               ELSE IF req.r.id # <<>> THEN "update"
               ELSE "create"

\* the error of a batch: the failing operation, its record, the cause and
\* the number of requests applied before it
ExecErr(req, cause, succeeded) ==
  [kind |-> "execute", op |-> OpKind(req), record |-> req.r, cause |-> cause,
   succeeded |-> succeeded]

ExecOne(records, req, fail) ==
  IF OpKind(req) = "create" THEN CreateRecordOn(records, req.r, fail)
  ELSE IF OpKind(req) = "update" THEN UpdateRecordOn(records, req.r, fail)
  ELSE DeleteRecordOn(records, req.r, fail)

RECURSIVE rawExecuteLoop(_, _, _, _, _)
rawExecuteLoop(reqs, i, failAt, records, events) ==
  IF i > Len(reqs)
    THEN [err |-> Nil, events |-> events, records |-> records]
  ELSE LET res == ExecOne(records, reqs[i], failAt = i)
           evs == events \o res.events
       IN  IF res.err # Nil
             THEN [err |-> ExecErr(reqs[i], res.err, i - 1), events |-> evs,
                   records |-> res.records]
             ELSE rawExecuteLoop(reqs, i + 1, failAt, res.records, evs)

rawExecuteRequests(zone, state, reqs, failAt) ==
  rawExecuteLoop(reqs, 1, failAt, svcRecords, <<>>)

(***************************************************************************)
(* Handler.ExecuteRequests                                                 *)
(***************************************************************************)
EvApply(err, zone, reqs) ==
  [kind |-> "apply", err |-> err, zone |-> zone.key, reqs |-> reqs]

\* ExecuteRequests telling the cache that the batch went well, whatever
\* the executor returned
ExecuteRequestsAppliesNil(zone, state, reqs, failAt) ==
  LET e == rawExecuteRequests(zone, state, reqs, failAt)
  IN  [err |-> e.err,
       events |-> Append(e.events, EvApply(Nil, zone, reqs)),
       records |-> e.records,
       stateCache |-> CacheApplyRequests(NewHandlerCacheConfig, Nil, zone, reqs)]

ExecuteRequests(zone, state, reqs, failAt) ==
  LET e == rawExecuteRequests(zone, state, reqs, failAt)
  IN  [err |-> e.err,
       events |-> Append(e.events, EvApply(e.err, zone, reqs)),
       records |-> e.records,
       stateCache |-> CacheApplyRequests(NewHandlerCacheConfig, e.err, zone, reqs)]

(***************************************************************************)
(* The state machine.                                                      *)
(***************************************************************************)
MaxDomains == Cardinality(DomainNames)

\* the records a domain d can hold at start
RecordKinds(d) ==
  { [Type |-> RS_A, Name |-> d, Data |-> "1.2.3.4", TTL |-> 10],
    [Type |-> RS_NS, Name |-> Sub(d), Data |-> "ns1", TTL |-> 3600],
    [Type |-> RS_NS, Name |-> d, Data |-> "ns0", TTL |-> 3600] }

\* record identifiers are unique within a zone
WithIds(ks) ==
  [i \in 1..Len(ks) |-> [ID |-> i, Type |-> ks[i].Type, Name |-> ks[i].Name,
                         Data |-> ks[i].Data, TTL |-> ks[i].TTL]]

RecordLists(d) == { WithIds(ks) : ks \in SeqsUpTo(RecordKinds(d), MaxRecs) }

DomainLists == { s \in SeqsUpTo(DomainNames, MaxDomains) :
                   \A i, j \in 1..Len(s) : i # j => s[i] # s[j] }

\* the zone descriptor the host passes for domain d
ZoneOf(d) == [id |-> d, domain |-> d, key |-> d, forwarded |-> <<>>]

\* the raw records the host submits
InputKinds == UNION { { <<d, k>> : k \in { kk \in RecordKinds(d) : kk.Type = RS_A } } :
                        d \in DomainNames }

RecordInputs ==
  { [id |-> id, type |-> dk[2].Type, name |-> dk[2].Name, value |-> dk[2].Data,
     ttl |-> t, domain |-> dk[1]] : id \in IdInputs, t \in TTLInputs, dk \in InputKinds }

\* a record that is not created yet carries no identifier
CreateInputs == { r \in RecordInputs : r.id = <<>> }

DeleteInputs == { r \in RecordInputs : r.ttl = MinTTL }

TotalRecs(f) == Len(f["a.com"]) + Len(f["b.com"])

\* the hosts that call the handler at the same time
Callers == {"c1", "c2"}

\* a caller that is in no call
IdleCall == [pc |-> "idle"]

\* the change requests the host submits for the zone of domain d
ExecRequests(d) ==
  { [r |-> [id |-> id, type |-> RS_A, name |-> d, value |-> "1.2.3.4", ttl |-> 10,
            domain |-> d],
     remove |-> rm] : id \in {<<>>, <<"1">>, <<"7">>}, rm \in {FALSE} }
  \cup
  { [r |-> [id |-> id, type |-> RS_A, name |-> d, value |-> "1.2.3.4", ttl |-> 10,
            domain |-> d],
     remove |-> rm] : id \in {<<"1">>, <<"x">>}, rm \in {TRUE} }

Batches(d) == SeqsUpTo(ExecRequests(d), MaxBatch)

\* no call is in progress and no result is pending
Idle == [op |-> "idle", events |-> <<>>]

\* the faults the handler's calls are run against
HandlerFaults == { f \in Faults : f.kind \in {"none", "err", "nolinks"} /\ f.at = 1 }

\* number of ListRecords calls for a domain among the events
Fetches(events, domain) ==
  Cardinality({ i \in 1..Len(events) : events[i] = EvRecords(domain, 1) })

\* what the host keeps of a call for the call that follows it
Summary(l) ==
  IF l.op = "GetZoneState"
    THEN [op |-> l.op, zone |-> l.zone, result |-> l.result, err |-> l.err,
          fetches |-> Fetches(l.events, l.zone), fault |-> l.fault]
  ELSE IF l.op = "ReportZoneStateConflict"
    THEN [op |-> l.op, zone |-> l.zone]
  ELSE IF l.op = "ExecuteRequests"
    THEN [op |-> l.op, zone |-> l.zone, failed |-> l.err # Nil]
  ELSE [op |-> "none"]

Init ==
  /\ svcDomains \in DomainLists
  /\ svcRecords \in { f \in [DomainNames -> UNION { RecordLists(d) : d \in DomainNames }] :
                        /\ TotalRecs(f) <= MaxRecs
                        /\ \A d \in DomainNames :
                             /\ f[d] \in RecordLists(d)
                             /\ d \notin Range(svcDomains) => f[d] = <<>> }
  /\ last = Idle
  /\ prevState = [op |-> "none"]
  /\ zonesCache = NoZones
  /\ stateCache = [d \in DomainNames |-> NoEntry]
  /\ calls = [c \in Callers |-> IdleCall]

\* the host takes the result of the call that returned
Return ==
  /\ last # Idle
  /\ last' = Idle
  /\ prevState' = Summary(last)
  /\ UNCHANGED <<calls, svcDomains, svcRecords, zonesCache, stateCache>>

DoListDomains ==
  \E fault \in Faults :
    LET r == ListDomains(fault)
    IN  /\ last = Idle
        /\ last' = [op |-> "ListDomains", fault |-> fault, result |-> r.result,
                    err |-> r.err, events |-> r.events]
        /\ UNCHANGED <<calls, svcDomains, svcRecords, prevState, zonesCache, stateCache>>

DoListRecords ==
  \E domain \in DomainNames, fault \in Faults :
    LET r == ListRecords(domain, fault)
    IN  /\ last = Idle
        /\ last' = [op |-> "ListRecords", domain |-> domain, fault |-> fault,
                    result |-> r.result, err |-> r.err, events |-> r.events]
        /\ UNCHANGED <<calls, svcDomains, svcRecords, prevState, zonesCache, stateCache>>

DoCreateRecord ==
  \E r \in CreateInputs, fail \in BOOLEAN :
    LET c == CreateRecord(r, fail)
    IN  /\ last = Idle
        /\ fail \/ TotalRecs(svcRecords) < MaxRecs
        /\ last' = [op |-> "CreateRecord", r |-> r, fail |-> fail, err |-> c.err,
                    events |-> c.events]
        /\ svcRecords' = c.records
        /\ UNCHANGED <<calls, svcDomains, prevState, zonesCache, stateCache>>

DoUpdateRecord ==
  \E r \in RecordInputs, fail \in BOOLEAN :
    LET u == UpdateRecord(r, fail)
    IN  /\ last = Idle
        /\ last' = [op |-> "UpdateRecord", r |-> r, fail |-> fail, err |-> u.err,
                    events |-> u.events]
        /\ svcRecords' = u.records
        /\ UNCHANGED <<calls, svcDomains, prevState, zonesCache, stateCache>>

DoDeleteRecord ==
  \E r \in DeleteInputs, fail \in BOOLEAN :
    LET x == DeleteRecord(r, fail)
    IN  /\ last = Idle
        /\ last' = [op |-> "DeleteRecord", r |-> r, fail |-> fail, err |-> x.err,
                    events |-> x.events]
        /\ svcRecords' = x.records
        /\ UNCHANGED <<calls, svcDomains, prevState, zonesCache, stateCache>>

\* at most one listing call of a refresh meets a fault
FaultPlans ==
  { f \in [0..MaxDomains -> HandlerFaults] :
      \A i, j \in 0..MaxDomains : i # j => f[i] = NoFault \/ f[j] = NoFault }

\* Handler.GetZones
GetZones ==
  \E faults \in FaultPlans :
    LET r == CacheGetZones(faults)
    IN  /\ last = Idle
        /\ last' = [op |-> "GetZones", faults |-> faults, result |-> r.result,
                    err |-> r.err, events |-> r.events]
        /\ zonesCache' = r.zonesCache
        /\ UNCHANGED <<calls, svcDomains, svcRecords, prevState, stateCache>>

\* Handler.GetZoneState serving its own memo of the last state it built,
\* whatever the cache says about it
GetZoneStateMemo ==
  \E d \in DomainNames, fault \in HandlerFaults :
    LET r == getZoneState(ZoneOf(d), fault)
        hit == stateCache[d].state # NoState
    IN  /\ last = Idle
        /\ last' = IF hit
                     THEN [op |-> "GetZoneState", zone |-> d, fault |-> fault,
                           result |-> stateCache[d].state, err |-> Nil, events |-> <<>>]
                     ELSE [op |-> "GetZoneState", zone |-> d, fault |-> fault,
                           result |-> r.result, err |-> r.err, events |-> r.events]
        /\ stateCache' = IF hit \/ r.err # Nil THEN stateCache
                         ELSE [stateCache EXCEPT ![d].state = r.result]
        /\ UNCHANGED <<calls, svcDomains, svcRecords, prevState, zonesCache>>

\* Handler.GetZoneState
GetZoneState ==
  \E d \in DomainNames, fault \in HandlerFaults :
    LET r == CacheGetZoneState(NewHandlerCacheConfig, ZoneOf(d), fault)
    IN  /\ last = Idle
        /\ last' = [op |-> "GetZoneState", zone |-> d, fault |-> fault,
                    result |-> r.result, err |-> r.err, events |-> r.events]
        /\ stateCache' = r.stateCache
        /\ UNCHANGED <<calls, svcDomains, svcRecords, prevState, zonesCache>>

\* Handler.ReportZoneStateConflict answering for itself instead of handing
\* the report to the cache
ReportZoneStateConflictUnforwarded ==
  \E d \in DomainNames, err \in {RemoteErr("conflict")} :
    /\ last = Idle
    /\ last' = [op |-> "ReportZoneStateConflict", zone |-> d, result |-> FALSE,
                events |-> <<>>]
    /\ UNCHANGED <<calls, svcDomains, svcRecords, prevState, zonesCache, stateCache>>

\* Handler.ReportZoneStateConflict
ReportZoneStateConflict ==
  \E d \in DomainNames, err \in {RemoteErr("conflict")} :
    LET r == CacheReportZoneStateConflict(ZoneOf(d), err)
    IN  /\ last = Idle
        /\ last' = [op |-> "ReportZoneStateConflict", zone |-> d, result |-> r.result,
                    events |-> <<>>]
        /\ stateCache' = r.stateCache
        /\ UNCHANGED <<calls, svcDomains, svcRecords, prevState, zonesCache>>

\* the host drives the handler
Next ==
  \/ GetZones
  \/ GetZoneState
  \/ ReportZoneStateConflict
  \/ Return

Spec == Init /\ [][Next]_vars

\* the executor and the handler drive the client
ClientNext ==
  \/ DoListDomains
  \/ DoListRecords
  \/ DoCreateRecord
  \/ DoUpdateRecord
  \/ DoDeleteRecord
  \/ Return

ClientSpec == Init /\ [][ClientNext]_vars

\* Handler.ExecuteRequests, called by the host
DoExecuteRequests ==
  \E d \in Range(svcDomains) :
    \E reqs \in Batches(d) :
      \E failAt \in 0..Len(reqs) :
        LET x == ExecuteRequests(ZoneOf(d), NoState, reqs, failAt)
        IN  /\ last = Idle
            /\ TotalRecs(x.records) <= MaxRecs
            /\ last' = [op |-> "ExecuteRequests", zone |-> d, reqs |-> reqs,
                        failAt |-> failAt, err |-> x.err, events |-> x.events]
            /\ svcRecords' = x.records
            /\ stateCache' = x.stateCache
            /\ UNCHANGED <<calls, svcDomains, prevState, zonesCache>>

\* the host reads a zone's state and applies change batches to it
ExecNext ==
  \/ DoExecuteRequests
  \/ GetZoneState
  \/ Return

\* a remote with the one domain a.com, holding A records only
ExecInit ==
  /\ Init
  /\ svcDomains = <<"a.com">>
  /\ \A i \in 1..Len(svcRecords["a.com"]) : svcRecords["a.com"][i].Type = RS_A

ExecSpec == ExecInit /\ [][ExecNext]_vars

(***************************************************************************)
(* What the claims read off a call.                                        *)
(***************************************************************************)
Reqs(events) == SelectSeq(events, LAMBDA e : e.kind = "req")

PagesRequested(events) == [i \in 1..Len(Reqs(events)) |-> Reqs(events)[i].page]

Accepts(events) == Cardinality({ i \in 1..Len(events) : events[i].kind = "accept" })

Metrics(events, name) ==
  Cardinality({ i \in 1..Len(events) : events[i] = EvMetric(name) })

AllMetrics(events) == Cardinality({ i \in 1..Len(events) : events[i].kind = "metric" })

IsListCall == last.op \in {"ListDomains", "ListRecords"}

\* the listing a list call is about, as the remote holds it
Listing == IF last.op = "ListDomains" THEN svcDomains ELSE svcRecords[last.domain]

ListingKnown == last.op = "ListDomains" \/ last.domain \in Range(svcDomains)

ServedPerPage == Min(PerPage, RemotePageCap)

\* N: the number of pages the listing is served as
ListingPages == NumPages(Len(Listing), ServedPerPage)

\* the remote serves every page the call reads, with truthful markers
ServedTruthfully(fault, n) ==
  fault.kind = "none" \/ fault.at > n \/ (fault.at = n /\ fault.kind # "err")

\* a request fails, or the current-page marker of a non-last page is unreadable
PageFails(fault, n) ==
  (fault.kind = "err" /\ fault.at <= n) \/ (fault.kind = "curerr" /\ fault.at < n)

\* C1: against a remote that serves a listing as N >= 1 pages, ListDomains and
\* ListRecords return the concatenation of the items of pages 1..N in request
\* order, and request each of the pages 1..N once, in order.
C1_ListConcatenation ==
  (IsListCall /\ ListingKnown /\ ServedTruthfully(last.fault, ListingPages)) =>
    /\ last.err = Nil
    /\ last.result = Flatten([k \in 1..ListingPages |-> PageOf(Listing, k, ServedPerPage)])
    /\ last.result = Listing
    /\ PagesRequested(last.events) = [k \in 1..ListingPages |-> k]

C1_Witness ==
  /\ last.op = "ListRecords"
  /\ ListingKnown
  /\ last.fault = NoFault
  /\ ListingPages >= 2
  /\ Len(last.result) >= 2
  /\ last.result[1] # last.result[2]

\* C5: the TTL sent by CreateRecord and UpdateRecord for an input TTL t is
\* max(t, 30); a TTL below 30 does not stop the call from being issued.
C5_TTLFloor ==
  (last.op \in {"CreateRecord", "UpdateRecord"}) =>
    /\ \A i \in 1..Len(Reqs(last.events)) :
         /\ Reqs(last.events)[i].req.TTL = Max(last.r.ttl, 30)
         /\ Reqs(last.events)[i].req.TTL >= 30
         /\ last.r.ttl >= 30 => Reqs(last.events)[i].req.TTL = last.r.ttl
    /\ last.op = "CreateRecord" => Len(Reqs(last.events)) = 1
    /\ (last.op = "UpdateRecord" /\ last.r.id \in {<<"1">>, <<"2">>, <<"3">>, <<"1", "2">>})
         => Len(Reqs(last.events)) = 1

C5_Witness ==
  /\ last.op = "UpdateRecord"
  /\ last.r.ttl = 29
  /\ Len(Reqs(last.events)) = 1
  /\ Reqs(last.events)[1].req.TTL = 30
  /\ last.err = Nil

\* the identifiers among the inputs that are no integers
NotIntegers == { <<>>, <<"x">>, <<"1", "x">>, <<"-">> }

\* C6: UpdateRecord and DeleteRecord with an identifier that is no integer
\* return the conversion error and send nothing: no remote request, no
\* rate-limiter token, no metric increment.
C6_BadIdNoRemoteCall ==
  (last.op \in {"UpdateRecord", "DeleteRecord"} /\ last.r.id \in NotIntegers) =>
    /\ last.err = ConvErr(IF last.op = "UpdateRecord" THEN "update" ELSE "delete", last.r)
    /\ last.events = <<>>

C6_Witness ==
  /\ last.op = "UpdateRecord"
  /\ last.r.id = <<"1", "x">>
  /\ last.err.kind = "convert"
  /\ ~last.fail

\* C7: when a page request of ListDomains or ListRecords fails, or the
\* current-page marker of a non-last page cannot be read, the call returns
\* the error with an empty result and sends no request after the failing one.
C7_PageErrorNoPartial ==
  /\ (IsListCall /\ ListingKnown /\ PageFails(last.fault, ListingPages)) =>
        /\ last.err # Nil
        /\ last.result = <<>>
        /\ PagesRequested(last.events) = [k \in 1..last.fault.at |-> k]
  /\ (IsListCall /\ last.err # Nil) => last.result = <<>>

C7_Witness ==
  /\ last.op = "ListRecords"
  /\ ListingKnown
  /\ last.fault = [kind |-> "err", at |-> 2]
  /\ ListingPages >= 2
  /\ last.err # Nil

\* C8: a call of ListDomains or ListRecords takes one rate-limiter token and
\* records one metric increment, however many pages it requests and whether
\* or not a page fails.
C8_OneTokenPerListCall ==
  IsListCall =>
    /\ Accepts(last.events) = 1
    /\ AllMetrics(last.events) = 1
    /\ Metrics(last.events,
               IF last.op = "ListDomains" THEN M_LISTZONES ELSE M_LISTRECORDS) = 1

C8_Witness ==
  /\ last.op = "ListDomains"
  /\ Len(Reqs(last.events)) >= 2
  /\ Accepts(last.events) = 1

\* C9: a call sends no remote request before it has taken its rate-limiter
\* token, and it takes one token exactly when it sends a request.
C9_TokenBeforeRequest ==
  (last.op \in {"ListDomains", "ListRecords", "CreateRecord", "UpdateRecord", "DeleteRecord"}) =>
    /\ \A i \in 1..Len(last.events) :
         last.events[i].kind = "req" =>
           \E j \in 1..(i - 1) : last.events[j].kind = "accept"
    /\ Accepts(last.events) = (IF Reqs(last.events) # <<>> THEN 1 ELSE 0)
    /\ (IsListCall \/ last.op = "CreateRecord" \/ last.r.id \notin NotIntegers)
         => Reqs(last.events) # <<>>

C9_Witness ==
  /\ last.op = "DeleteRecord"
  /\ Len(Reqs(last.events)) = 1
  /\ last.err = Nil

(***************************************************************************)
(* Claims about the handler.                                               *)
(***************************************************************************)
\* the names of the NS records of a listing that are not the apex
NSNames(recs, apex) ==
  LET f == SelectSeq(recs, LAMBDA x : x.Type = "NS" /\ x.Name # apex)
  IN  [i \in 1..Len(f) |-> f[i].Name]

NoFaults == \A j \in 0..MaxDomains : last.faults[j] = NoFault

\* C2: every zone of a zone-list refresh carries as forwarded subdomains the
\* names of the non-apex NS records of its own record listing, and no name
\* found while listing another zone.
C2_ForwardedOwnZone ==
  (last.op = "GetZones" /\ last.err = Nil /\ last.events # <<>> /\ NoFaults) =>
    \A i \in 1..Len(last.result) :
      last.result[i].forwarded =
        NSNames(svcRecords[last.result[i].domain], last.result[i].domain)

TwoGetZoneStateCalls ==
  /\ prevState.op = "GetZoneState"
  /\ last.op = "GetZoneState"
  /\ prevState.zone = last.zone

BothServedWell ==
  /\ prevState.err = Nil /\ last.err = Nil
  /\ prevState.fault = NoFault /\ last.fault = NoFault

Snapshot(d) ==
  LET recs == [i \in 1..Len(svcRecords[d]) |-> toRecord(svcRecords[d][i], d)]
      kept == SelectSeq(recs, LAMBDA r : ~(r.type = "NS" /\ r.name # d))
  IN  CalculateDNSSets([records |-> kept, dnssets |-> {}])

ScenarioListing ==
  /\ Len(svcRecords[last.zone]) = 2
  /\ svcRecords[last.zone][1].Type = "A" /\ svcRecords[last.zone][1].Name = last.zone
  /\ svcRecords[last.zone][2].Type = "NS" /\ svcRecords[last.zone][2].Name = Sub(last.zone)

ZonesKey == "zones"

\* the callers whose refresh for a key is in flight
InFlight(key) == { c \in Callers : calls[c].pc = "refreshing" /\ calls[c].key = key }

Waiting(key) == { c \in Callers : calls[c].pc = "waiting" /\ calls[c].key = key }

\* how says where the answer came from: a fetch of the caller's own
\* ("fetched"), the refresh it waited for ("waited"), a valid entry ("cached")
DoneCall(op, key, result, err, how) ==
  [pc |-> "done", op |-> op, key |-> key, result |-> result, err |-> err,
   how |-> how]

\* the fault plans of a refresh that runs beside another caller
ConcFaultPlans == { f \in FaultPlans : \A i \in 1..MaxDomains : f[i] = NoFault }

\* Handler.GetZones calling h.getZones itself, not through the cache
ConcGetZonesCallDirect(c) ==
  /\ calls[c].pc = "idle"
  /\ \E faults \in ConcFaultPlans :
       calls' = [calls EXCEPT ![c] = [pc |-> "refreshing", op |-> "GetZones",
                                      key |-> ZonesKey, plan |-> faults]]
  /\ UNCHANGED <<svcDomains, svcRecords, last, prevState, zonesCache, stateCache>>

\* Handler.GetZones, up to the start of the refresh
ConcGetZonesCall(c) ==
  /\ calls[c].pc = "idle"
  /\ IF zonesCache.valid
       THEN calls' = [calls EXCEPT ![c] =
                        DoneCall("GetZones", ZonesKey, zonesCache.zones, Nil, "cached")]
     ELSE IF InFlight(ZonesKey) # {}
       THEN calls' = [calls EXCEPT ![c] = [pc |-> "waiting", op |-> "GetZones",
                                           key |-> ZonesKey]]
     ELSE \E faults \in ConcFaultPlans :
            calls' = [calls EXCEPT ![c] = [pc |-> "refreshing", op |-> "GetZones",
                                           key |-> ZonesKey, plan |-> faults]]
  /\ UNCHANGED <<svcDomains, svcRecords, last, prevState, zonesCache, stateCache>>

\* the zone-list refresh of caller c returns: the cache installs its zones
\* and hands its outcome to the callers that waited for it
ConcGetZonesDone(c) ==
  /\ calls[c].pc = "refreshing"
  /\ calls[c].op = "GetZones"
  /\ LET r == getZones(calls[c].plan)
         zs == IF r.err # Nil THEN <<>> ELSE r.result
     IN  /\ zonesCache' = IF r.err # Nil THEN zonesCache
                          ELSE [valid |-> TRUE, zones |-> r.result]
         /\ calls' = [x \in Callers |->
                        IF x = c THEN DoneCall("GetZones", ZonesKey, zs, r.err, "fetched")
                        ELSE IF x \in Waiting(ZonesKey)
                          THEN DoneCall("GetZones", ZonesKey, zs, r.err, "waited")
                        ELSE calls[x]]
  /\ UNCHANGED <<svcDomains, svcRecords, last, prevState, stateCache>>

\* Handler.GetZoneState, up to the start of the refresh; a cache without
\* zone states keeps no entry to answer from and none to wait for
ConcGetZoneStateCall(c) ==
  /\ calls[c].pc = "idle"
  /\ \E d \in Range(svcDomains) :
       IF ~NewHandlerCacheConfig.disableZoneStateCache /\ stateCache[d].valid
         THEN calls' = [calls EXCEPT ![c] =
                          DoneCall("GetZoneState", d, stateCache[d].state, Nil, "cached")]
       ELSE IF ~NewHandlerCacheConfig.disableZoneStateCache /\ InFlight(d) # {}
         THEN calls' = [calls EXCEPT ![c] = [pc |-> "waiting", op |-> "GetZoneState",
                                             key |-> d]]
       ELSE \E fault \in HandlerFaults :
              calls' = [calls EXCEPT ![c] = [pc |-> "refreshing", op |-> "GetZoneState",
                                             key |-> d, plan |-> fault]]
  /\ UNCHANGED <<svcDomains, svcRecords, last, prevState, zonesCache, stateCache>>

\* the zone-state refresh of caller c returns
ConcGetZoneStateDone(c) ==
  /\ calls[c].pc = "refreshing"
  /\ calls[c].op = "GetZoneState"
  /\ LET d == calls[c].key
         r == getZoneState(ZoneOf(d), calls[c].plan)
     IN  /\ stateCache' = IF r.err # Nil \/ NewHandlerCacheConfig.disableZoneStateCache
                            THEN stateCache
                          ELSE [stateCache EXCEPT ![d] = [valid |-> TRUE, state |-> r.result]]
         /\ calls' = [x \in Callers |->
                        IF x = c THEN DoneCall("GetZoneState", d, r.result, r.err, "fetched")
                        ELSE IF x \in Waiting(d)
                          THEN DoneCall("GetZoneState", d, r.result, r.err, "waited")
                        ELSE calls[x]]
  /\ UNCHANGED <<svcDomains, svcRecords, last, prevState, zonesCache>>

\* the caller takes the result of its call
ConcReturn(c) ==
  /\ calls[c].pc = "done"
  /\ calls' = [calls EXCEPT ![c] = IdleCall]
  /\ UNCHANGED <<svcDomains, svcRecords, last, prevState, zonesCache, stateCache>>

ConcNext ==
  \/ \E c \in Callers : ConcGetZonesCall(c)
  \/ \E c \in Callers : ConcGetZonesDone(c)
  \/ \E c \in Callers : ConcGetZoneStateCall(c)
  \/ \E c \in Callers : ConcGetZoneStateDone(c)
  \/ \E c \in Callers : ConcReturn(c)

ConcSpec == Init /\ [][ConcNext]_vars

(***************************************************************************)
(* Claims about change batches.                                            *)
(***************************************************************************)
IsBatch == last.op = "ExecuteRequests"

\* the remote call a change request stands for
CallOf(req) ==
  IF req.remove THEN EvDelete(req.r.domain, Atoi(req.r.id).val)
  ELSE IF req.r.id = <<>>
    THEN EvCreate(req.r.domain, [Type |-> req.r.type, Name |-> req.r.name,
                                 Data |-> req.r.value, TTL |-> Max(req.r.ttl, MinTTL)])
  ELSE EvEdit(req.r.domain, Atoi(req.r.id).val,
              [Type |-> req.r.type, Name |-> req.r.name,
               Data |-> req.r.value, TTL |-> Max(req.r.ttl, MinTTL)])

\* the batch starts with the update of record 7, which the remote does not hold
StartsWithUpdate7 ==
  /\ IsBatch
  /\ last.reqs # <<>>
  /\ ~last.reqs[1].remove
  /\ last.reqs[1].r.id = <<"7">>

\* after a batch: nothing is sent after the first failing request, and the
\* error names that request
AbortsAtFirstFailure ==
  /\ (IsBatch /\ last.err # Nil) =>
        /\ last.err.succeeded < Len(last.reqs)
        /\ last.err.record = last.reqs[last.err.succeeded + 1].r
        /\ last.err.op = OpKind(last.reqs[last.err.succeeded + 1])
        /\ Len(Reqs(last.events)) <= last.err.succeeded + 1
        /\ Len(Reqs(last.events)) >= last.err.succeeded
  /\ (IsBatch /\ last.failAt > 0) =>
        /\ last.err # Nil
        /\ last.err.succeeded < last.failAt
  /\ StartsWithUpdate7 =>
        /\ last.err # Nil
        /\ last.err.record.id = <<"7">>
        /\ last.err.succeeded = 0
        /\ Len(Reqs(last.events)) = 1
        /\ Reqs(last.events)[1].call = "EditRecord"

\* a failed batch leaves the remote as the requests before the failing one
\* made it
KeepsEarlierEffects ==
  (last = Idle /\ last'.op = "ExecuteRequests" /\ last'.err # Nil) =>
    svcRecords' = rawExecuteLoop(SubSeq(last'.reqs, 1, last'.err.succeeded), 1, 0,
                                 svcRecords, <<>>).records

\* C12: a batch stops at its first failing request: no request after it is
\* sent, the effects of the requests before it stay on the remote, and the
\* error names the failing operation and record.  For [update id=7 (fails),
\* create] the create is not sent and the error names record 7.
C12_AbortOnFirstFailure == []AbortsAtFirstFailure /\ [][KeepsEarlierEffects]_vars

C12_Witness ==
  /\ StartsWithUpdate7
  /\ Len(last.reqs) = 2
  /\ OpKind(last.reqs[2]) = "create"
  /\ last.failAt = 0
  /\ last.err # Nil
  /\ last.err.record.id = <<"7">>

\* C13: the remote calls of a batch are the calls of a prefix of its
\* requests, in the order of the requests, each with its metric increment
\* and its token right before it.
C13_InputOrder ==
  IsBatch =>
    LET sent == Reqs(last.events)
    IN  /\ Len(sent) <= Len(last.reqs)
        /\ \A i \in 1..Len(sent) : sent[i] = CallOf(last.reqs[i])
        /\ Len(last.events) = 3 * Len(sent) + 1
        /\ \A i \in 1..Len(sent) :
             /\ last.events[3 * i - 2].kind = "metric"
             /\ last.events[3 * i - 1].kind = "accept"
             /\ last.events[3 * i] = sent[i]

C13_Witness ==
  /\ IsBatch
  /\ Len(last.reqs) = 2
  /\ OpKind(last.reqs[1]) = "update"
  /\ OpKind(last.reqs[2]) = "create"
  /\ Len(Reqs(last.events)) = 2
  /\ last.err = Nil

Applies(events) == SelectSeq(events, LAMBDA e : e.kind = "apply")

\* C16: ExecuteRequests reports to the cache once, after the executor's last
\* remote call: ApplyRequests gets the error the host gets, the zone and
\* the requests; after a failed batch the zone's entry is invalid and the
\* next GetZoneState of the zone lists its records anew.
C16_ApplyRequestsOnce ==
  /\ IsBatch =>
        /\ Len(Applies(last.events)) = 1
        /\ last.events[Len(last.events)] =
             [kind |-> "apply", err |-> last.err, zone |-> last.zone, reqs |-> last.reqs]
        /\ last.failAt > 0 => last.err # Nil
        /\ last.err # Nil => ~stateCache[last.zone].valid
  /\ (prevState.op = "ExecuteRequests" /\ prevState.failed /\ last.op = "GetZoneState"
        /\ last.zone = prevState.zone) =>
        Fetches(last.events, last.zone) = 1

C16_Witness ==
  /\ prevState.op = "ExecuteRequests"
  /\ prevState.failed
  /\ last.op = "GetZoneState"
  /\ last.zone = prevState.zone
  /\ last.err = Nil
  /\ Fetches(last.events, last.zone) = 1

\* the create and update requests a batch sent
Written(events) ==
  SelectSeq(events, LAMBDA e : e.kind = "req" /\ e.call \in {"CreateRecord", "EditRecord"})

\* C19: the floor of 30 is applied where records are written only: the state
\* GetZoneState builds carries each record's TTL as the remote listed it (a
\* listed 10 stays 10), while a create or update of a record with TTL 10
\* sends 30.
C19_FloorOnWritesOnly ==
  /\ (last.op = "GetZoneState" /\ last.err = Nil /\ last.fault = NoFault) =>
        LET listed == svcRecords[last.zone]
            got    == last.result.records
        IN  /\ Len(got) = Len(listed)
            /\ \A i \in 1..Len(got) :
                 /\ got[i].id = Itoa(listed[i].ID)
                 /\ got[i].ttl = listed[i].TTL
            /\ \A s \in last.result.dnssets :
                 \A i \in 1..Len(s.values) :
                   \E j \in 1..Len(listed) : s.values[i].ttl = listed[j].TTL
  /\ (IsBatch /\ \A k \in 1..Len(last.reqs) : last.reqs[k].r.ttl = 10) =>
        \A i \in 1..Len(Written(last.events)) : Written(last.events)[i].req.TTL = 30

C19_Witness ==
  /\ prevState.op = "ExecuteRequests"
  /\ ~prevState.failed
  /\ last.op = "GetZoneState"
  /\ last.err = Nil
  /\ last.fault = NoFault
  /\ \E i, j \in 1..Len(last.result.records) :
       /\ last.result.records[i].ttl = 10
       /\ last.result.records[j].ttl = 30

(***************************************************************************)
(* Claims about refreshes.                                                 *)
(***************************************************************************)
\* a listing call that runs against this fault fails
Failing(fault) == fault.kind = "err"

\* some listing call of a zone-list refresh under this plan fails
RefreshFails(faults) ==
  \/ Failing(faults[0])
  \/ \E i \in 1..Len(svcDomains) : Failing(faults[i])

\* a refresh that fails returns its error and leaves both caches alone
FailedRefreshKeepsCache ==
  /\ (last = Idle /\ last'.op = "GetZones" /\ last'.events # <<>>
        /\ RefreshFails(last'.faults)) =>
        /\ last'.err # Nil
        /\ zonesCache' = zonesCache
        /\ stateCache' = stateCache
  /\ (last = Idle /\ last'.op = "GetZoneState" /\ Failing(last'.fault)) =>
        /\ last'.err # Nil
        /\ zonesCache' = zonesCache
        /\ stateCache' = stateCache

\* the cached zone list changes with a GetZones that went well, and with
\* nothing else
ChangesOnSuccessOnly ==
  zonesCache' # zonesCache =>
    /\ last'.op = "GetZones"
    /\ last'.err = Nil
    /\ ~RefreshFails(last'.faults)
    /\ zonesCache' = [valid |-> TRUE, zones |-> last'.result]

RecordListings(events) ==
  LET rs == SelectSeq(events, LAMBDA e : e.kind = "req" /\ e.call = "Records" /\ e.page = 1)
  IN  [i \in 1..Len(rs) |-> rs[i].domain]

\* C18: a zone-list refresh is all or nothing: when the listing of the
\* domains or of one domain's records fails, it returns the error and no
\* zone, and lists no records of the domains after the failing one; when no
\* listing fails it returns one zone per listed domain, in listing order.
C18_AllOrNothing ==
  (last.op = "GetZones" /\ last.events # <<>>) =>
    LET listed == ListDomains(last.faults[0])
        fails  == { i \in 1..Len(listed.result) : Failing(last.faults[i]) }
    IN  IF listed.err # Nil
          THEN /\ last.err # Nil
               /\ last.result = <<>>
               /\ RecordListings(last.events) = <<>>
        ELSE IF fails # {}
          THEN LET k == CHOOSE i \in fails : \A j \in fails : i <= j
               IN  /\ last.err # Nil
                   /\ last.result = <<>>
                   /\ RecordListings(last.events) = SubSeq(listed.result, 1, k)
        ELSE /\ last.err = Nil
             /\ Len(last.result) = Len(listed.result)
             /\ \A i \in 1..Len(listed.result) :
                  /\ last.result[i].domain = listed.result[i]
                  /\ last.result[i].id = listed.result[i]
             /\ RecordListings(last.events) = listed.result

C18_Witness ==
  /\ last.op = "GetZones"
  /\ Len(svcDomains) = 2
  /\ Failing(last.faults[1])
  /\ last.err # Nil
  /\ last.result = <<>>
  /\ RecordListings(last.events) = <<svcDomains[1]>>

(***************************************************************************)
(* Claims about the end of the page loop.                                  *)
(***************************************************************************)
\* C17: against a remote that serves a listing as N pages with truthful
\* markers, ListDomains and ListRecords make N page requests, the first for
\* page 1 and each next one for the page after the one before; a response
\* without page links ends the loop as a last page does.
C17_PageLoopEnds ==
  /\ (IsListCall /\ ListingKnown /\ last.fault.kind = "none") =>
        LET asked == PagesRequested(last.events)
        IN  /\ last.err = Nil
            /\ Len(asked) = ListingPages
            /\ asked[1] = 1
            /\ \A i \in 1..(Len(asked) - 1) : asked[i + 1] = asked[i] + 1
  /\ (IsListCall /\ ListingKnown /\ last.fault.kind = "nolinks"
        /\ last.fault.at <= ListingPages) =>
        /\ last.err = Nil
        /\ Len(PagesRequested(last.events)) = last.fault.at
        /\ PagesRequested(last.events)[last.fault.at] = last.fault.at
        /\ last.result = Flatten([k \in 1..last.fault.at |->
                                    PageOf(Listing, k, ServedPerPage)])

C17_Witness ==
  /\ last.op = "ListDomains"
  /\ last.fault = NoFault
  /\ ListingPages = 2
  /\ PagesRequested(last.events) = <<1, 2>>
  /\ last.err = Nil

(***************************************************************************)
(* Claims about callers that run at the same time.                         *)
(***************************************************************************)
\* at most one refresh of the zone list is in flight, and a caller waits
\* only for a refresh that is in flight
OneZoneListRefresh ==
  /\ Cardinality(InFlight(ZonesKey)) <= 1
  /\ Waiting(ZonesKey) # {} => InFlight(ZonesKey) # {}

\* a GetZoneState call is answered by a fetch of its own
OwnZoneStateFetch ==
  \A c \in Callers :
    /\ (calls[c].pc = "done" /\ calls[c].op = "GetZoneState") => calls[c].how = "fetched"
    /\ ~(calls[c].pc = "waiting" /\ calls[c].op = "GetZoneState")

\* a caller that arrives while the zone list is refreshed starts no fetch,
\* and a caller that waited gets the outcome of the refresh it waited for
WaitersGetTheOutcome ==
  \A c \in Callers :
    /\ (calls[c].pc = "idle" /\ InFlight(ZonesKey) # {} /\ calls'[c].pc # "idle"
          /\ calls'[c].key = ZonesKey) =>
          calls'[c].pc = "waiting"
    /\ (calls[c].pc = "waiting" /\ calls[c].key = ZonesKey /\ calls'[c].pc # "waiting") =>
          \E r \in InFlight(ZonesKey) :
            /\ calls'[r].pc = "done"
            /\ calls'[r].how = "fetched"
            /\ calls'[c].pc = "done"
            /\ calls'[c].how = "waited"
            /\ calls'[c].result = calls'[r].result
            /\ calls'[c].err = calls'[r].err

C11_TwoZoneStateFetches ==
  /\ calls["c1"].pc = "refreshing"
  /\ calls["c1"].op = "GetZoneState"
  /\ calls["c2"].pc = "refreshing"
  /\ calls["c2"].op = "GetZoneState"
  /\ calls["c1"].key = calls["c2"].key

====
